---- MODULE Spec2Model ----
(***************************************************************************)
(* Account REST service (service/routes.py): the HTTP handlers for         *)
(* /accounts over the Account entity and its backing store.                *)
(*                                                                         *)
(* The handlers are translated from service/routes.py.  The Account entity *)
(* (service/models.py) and the error handlers that turn a validation error *)
(* into a 400 are not part of the sources at hand: they are modelled from  *)
(* section 4.1 and section 7 of the specification.  The account's          *)
(* date_joined is left out: no handler reads or compares it.               *)
(***************************************************************************)
EXTENDS Integers, Sequences, FiniteSets, TLC

VARIABLES
    store,      \* the accounts table: id -> row
    next_id,    \* the table's autoincrement sequence: the id of the next insert
    request,    \* the request handled last (sequential runs)
    response,   \* the response to it
    created,    \* history: ids returned by a 201 of POST /accounts
    deleted,    \* history: ids removed by a 204 of DELETE /accounts/{id}
    flask,      \* the framework the service is deployed on (see FlaskBehaviours)
    thr         \* concurrent runs: per worker thread, the request in flight

vars == <<store, next_id, request, response, created, deleted, flask, thr>>

(***************************************************************************)
(* Bounds and the values requests are drawn from                           *)
(***************************************************************************)
MaxId == 2                      \* at most MaxId inserts in a run

NoneVal == "None"               \* Python's None
ForeignId == 7                  \* an "id" value a request body may carry
JSON == "application/json"
ContentTypes == {NoneVal, JSON, "text/html", "application/json; charset=utf-8"}
PathIds == 1 .. MaxId

RequiredKeys == {"name", "email", "address"}
StrKeys == RequiredKeys \cup {"phone_number"}
FieldValues == [name |-> {"x", "y"}, email |-> {"e"}, address |-> {"a"}]
AllValues == UNION {FieldValues[k] : k \in RequiredKeys}

\* JSON objects over the required keys: every key absent or present
Objects ==
    UNION {{f \in [S -> AllValues] : \A k \in S : f[k] \in FieldValues[k]} :
              S \in SUBSET RequiredKeys}
\* the complete ones with a phone number as well, and with an "id" on top
With(f, key, value) == [k \in DOMAIN f \cup {key} |-> IF k = key THEN value ELSE f[k]]
PhoneObjects == {With(f, "phone_number", "p") : f \in {g \in Objects : DOMAIN g = RequiredKeys}}
IdObjects == {With(f, "id", ForeignId) : f \in PhoneObjects}

\* a request body: nothing, bytes that are not JSON, or a JSON value
Bodies ==
    {[kind |-> "none"], [kind |-> "malformed"], [kind |-> "null"], [kind |-> "list"]}
        \cup {[kind |-> "object", obj |-> f] : f \in Objects \cup PhoneObjects \cup IdObjects}

\* the bodies sent under a content type that is not a JSON one: none, not JSON,
\* an invalid account, a valid account
SampleBodies ==
    {b \in Bodies : b.kind \in {"none", "malformed"}}
        \cup {[kind |-> "object", obj |-> f] :
                 f \in {g \in Objects \cup PhoneObjects :
                           DOMAIN g \in {{"name"}, StrKeys} /\ g["name"] = "y"}}
\* content type and body of a POST or PUT
WriteInputs ==
    {in \in ContentTypes \X Bodies :
        in[1] \in {JSON, "application/json; charset=utf-8"} \/ in[2] \in SampleBodies}

\* what request.get_json() does with a body whose mimetype is not JSON depends on
\* the installed framework: it returns None, or aborts with 400, or with 415
FlaskBehaviours == {"returns_none", "abort_400", "abort_415"}

(***************************************************************************)
(* Account entity and repository (service/models.py, from section 4.1)     *)
(***************************************************************************)
\* Account(): a fresh entity, no id yet, every field empty
Account ==
    [id |-> 0, name |-> NoneVal, email |-> NoneVal, address |-> NoneVal,
     phone_number |-> NoneVal]

\* serialize(): the mapping of every attribute to its JSON value
serialize(account) ==
    [k \in {"id"} \cup StrKeys |->
        CASE k = "id" -> account.id
          [] k = "name" -> account.name
          [] k = "email" -> account.email
          [] k = "address" -> account.address
          [] OTHER -> account.phone_number]

\* deserialize(data): populates the entity field by field, name, email, address,
\* then the optional phone_number; it never reads "id".  It fails on a value that
\* is not a mapping and on the first required key that is missing, and the entity
\* keeps the fields assigned before the failure.
deserialize(account, data) ==
    IF data.kind # "object" THEN [ok |-> FALSE, account |-> account]
    ELSE LET d == data.obj
             a1 == [account EXCEPT !.name = d["name"]]
             a2 == [a1 EXCEPT !.email = d["email"]]
             a3 == [a2 EXCEPT !.address = d["address"]]
             a4 == [a3 EXCEPT !.phone_number =
                        IF "phone_number" \in DOMAIN d THEN d["phone_number"]
                        ELSE NoneVal]
         IN  IF "name" \notin DOMAIN d THEN [ok |-> FALSE, account |-> account]
             ELSE IF "email" \notin DOMAIN d THEN [ok |-> FALSE, account |-> a1]
             ELSE IF "address" \notin DOMAIN d THEN [ok |-> FALSE, account |-> a2]
             ELSE [ok |-> TRUE, account |-> a4]

\* create(): inserts the entity as a new row under a fresh id of the sequence
create(account, st, nid) ==
    LET row == [account EXCEPT !.id = nid]
    IN  [store |-> [i \in DOMAIN st \cup {nid} |-> IF i = nid THEN row ELSE st[i]],
         next_id |-> nid + 1,
         account |-> row]

\* update(): writes the entity's fields over the existing row of its id; with
\* no such row nothing is written and the caller gets a storage error
update(account, st) ==
    IF account.id \in DOMAIN st
    THEN [ok |-> TRUE, store |-> [st EXCEPT ![account.id] = account]]
    ELSE [ok |-> FALSE, store |-> st]

\* delete(): removes the row of the entity's id; no error when it is gone already
delete(account, st) == [i \in DOMAIN st \ {account.id} |-> st[i]]

\* find(id): the row as an entity, or absent (the empty set)
find(st, id) == IF id \in DOMAIN st THEN {st[id]} ELSE {}

\* all(): every row once, in an order the store chooses
all(st) ==
    {s \in [1 .. Cardinality(DOMAIN st) -> {st[i] : i \in DOMAIN st}] :
        \A i, j \in DOMAIN s : i # j => s[i] # s[j]}

(***************************************************************************)
(* Responses                                                               *)
(***************************************************************************)
NoLocation == <<>>
Resp(status, body, location, parsed) ==
    [status |-> status, body |-> body, location |-> location, parsed |-> parsed]
Result(st, nid, resp) == [store |-> st, next_id |-> nid, resp |-> resp]

\* abort(status): the error handlers answer with a JSON error body
abort(status, parsed) == Resp(status, [kind |-> "abort"], NoLocation, parsed)
\* a validation error of deserialize() is answered with 400
bad_request == abort(400, TRUE)
\* a storage error is answered with 500
internal_server_error == abort(500, TRUE)

\* url_for("get_account_by_id", account_id=id, _external=True): the absolute
\* URL of the route for that id, scheme and host first, then the path
url_for(id) == <<"http://localhost", "/accounts/", id>>

(***************************************************************************)
(* service/routes.py                                                       *)
(***************************************************************************)
\* faulty variant: a request without a Content-Type header passes the check
check_content_type_lenient(content_type, media_type) ==
    content_type = NoneVal \/ content_type = media_type

\* check_content_type(media_type): TRUE when the request passes, FALSE when it
\* is aborted with 415
check_content_type(content_type, media_type) ==
    content_type # NoneVal /\ content_type = media_type

\* request.is_json: the mimetype, parameters stripped, is a JSON one
is_json(content_type) ==
    content_type \in {JSON, "application/json; charset=utf-8"}

\* request.get_json(): status 0 and the parsed value, or the abort status
get_json(content_type, body, fb) ==
    IF ~is_json(content_type)
    THEN CASE fb = "returns_none" -> [status |-> 0, value |-> [kind |-> "null"]]
           [] fb = "abort_400" -> [status |-> 400, value |-> [kind |-> "null"]]
           [] OTHER -> [status |-> 415, value |-> [kind |-> "null"]]
    ELSE IF body.kind \in {"none", "malformed"}
         THEN [status |-> 400, value |-> [kind |-> "null"]]
         ELSE [status |-> 0, value |-> body]

\* faulty variant: the account is serialized before create() has given it an id
create_accounts_serialize_first(req, st, nid, fb) ==
    IF ~check_content_type(req.ct, JSON)
    THEN Result(st, nid, abort(415, FALSE))
    ELSE LET j == get_json(req.ct, req.body, fb)
             d == deserialize(Account, j.value)
             c == create(d.account, st, nid)
         IN  IF j.status # 0 THEN Result(st, nid, abort(j.status, TRUE))
             ELSE IF ~d.ok THEN Result(st, nid, bad_request)
             ELSE Result(c.store, c.next_id,
                         Resp(201, [kind |-> "account", account |-> serialize(d.account)],
                              url_for(c.account.id), TRUE))

\* POST /accounts
create_accounts(req, st, nid, fb) ==
    IF ~check_content_type(req.ct, JSON)
    THEN Result(st, nid, abort(415, FALSE))
    ELSE LET j == get_json(req.ct, req.body, fb)
             d == deserialize(Account, j.value)
             c == create(d.account, st, nid)
         IN  IF j.status # 0 THEN Result(st, nid, abort(j.status, TRUE))
             ELSE IF ~d.ok THEN Result(st, nid, bad_request)
             ELSE Result(c.store, c.next_id,
                         Resp(201, [kind |-> "account", account |-> serialize(c.account)],
                              url_for(c.account.id), TRUE))

\* faulty variant: the last row is left out of the list
list_all_accounts_short(rows) ==
    Resp(200, [kind |-> "list",
               items |-> [i \in 1 .. (Len(rows) - 1) |-> serialize(rows[i])]],
         NoLocation, FALSE)

\* GET /accounts: the rows as Account.all() returned them
list_all_accounts(rows) ==
    Resp(200, [kind |-> "list", items |-> [i \in DOMAIN rows |-> serialize(rows[i])]],
         NoLocation, FALSE)

\* GET /accounts/{id}
get_account_by_id(account_id, st) ==
    LET account == find(st, account_id)
    IN  IF account # {}
        THEN Resp(200, [kind |-> "account",
                        account |-> serialize(CHOOSE a \in account : TRUE)],
                  NoLocation, FALSE)
        ELSE Resp(404, [kind |-> "error", key |-> "message", text |-> "No account found."],
                  NoLocation, FALSE)

\* the 404 of PUT and DELETE
not_found ==
    Resp(404, [kind |-> "error", key |-> "error", text |-> "Account not found."],
         NoLocation, FALSE)

\* faulty variant: the entity is written back also when deserialize() failed
update_found_commit_partial(account, req, st, nid, fb) ==
    IF account = {} THEN Result(st, nid, not_found)
    ELSE LET j == get_json(req.ct, req.body, fb)
             d == deserialize(CHOOSE a \in account : TRUE, j.value)
             u == update(d.account, st)
         IN  IF j.status # 0 THEN Result(st, nid, abort(j.status, TRUE))
             ELSE IF ~d.ok THEN Result(u.store, nid, bad_request)
             ELSE IF ~u.ok THEN Result(u.store, nid, internal_server_error)
             ELSE Result(u.store, nid,
                         Resp(200, [kind |-> "account", account |-> serialize(d.account)],
                              NoLocation, TRUE))

\* faulty variant: account.update() is never called
update_found_no_update(account, req, st, nid, fb) ==
    IF account = {} THEN Result(st, nid, not_found)
    ELSE LET j == get_json(req.ct, req.body, fb)
             d == deserialize(CHOOSE a \in account : TRUE, j.value)
         IN  IF j.status # 0 THEN Result(st, nid, abort(j.status, TRUE))
             ELSE IF ~d.ok THEN Result(st, nid, bad_request)
             ELSE Result(st, nid,
                         Resp(200, [kind |-> "account", account |-> serialize(d.account)],
                              NoLocation, TRUE))

\* faulty variant: the entity takes its id from the body's "id" when there is one
update_found_body_id(account, req, st, nid, fb) ==
    IF account = {} THEN Result(st, nid, not_found)
    ELSE LET j == get_json(req.ct, req.body, fb)
             d == deserialize(CHOOSE a \in account : TRUE, j.value)
             a == IF "id" \in DOMAIN j.value.obj
                  THEN [d.account EXCEPT !.id = j.value.obj["id"]] ELSE d.account
         IN  IF j.status # 0 THEN Result(st, nid, abort(j.status, TRUE))
             ELSE IF ~d.ok THEN Result(st, nid, bad_request)
             ELSE Result([st EXCEPT ![req.id] = a], nid,
                         Resp(200, [kind |-> "account", account |-> serialize(a)],
                              NoLocation, TRUE))

\* faulty variant: the entity is merged into the store, which inserts the row
\* when it is no longer there
update_found_reinsert(account, req, st, nid, fb) ==
    IF account = {} THEN Result(st, nid, not_found)
    ELSE LET j == get_json(req.ct, req.body, fb)
             d == deserialize(CHOOSE a \in account : TRUE, j.value)
             merged == [i \in DOMAIN st \cup {d.account.id} |->
                           IF i = d.account.id THEN d.account ELSE st[i]]
         IN  IF j.status # 0 THEN Result(st, nid, abort(j.status, TRUE))
             ELSE IF ~d.ok THEN Result(st, nid, bad_request)
             ELSE Result(merged, nid,
                         Resp(200, [kind |-> "account", account |-> serialize(d.account)],
                              NoLocation, TRUE))

\* PUT /accounts/{id}, after Account.find: lines 114-122 on the entity found
update_found(account, req, st, nid, fb) ==
    IF account = {} THEN Result(st, nid, not_found)
    ELSE LET j == get_json(req.ct, req.body, fb)
             d == deserialize(CHOOSE a \in account : TRUE, j.value)
             u == update(d.account, st)
         IN  IF j.status # 0 THEN Result(st, nid, abort(j.status, TRUE))
             ELSE IF ~d.ok THEN Result(st, nid, bad_request)
             ELSE IF ~u.ok THEN Result(u.store, nid, internal_server_error)
             ELSE Result(u.store, nid,
                         Resp(200, [kind |-> "account", account |-> serialize(d.account)],
                              NoLocation, TRUE))

\* faulty variant: the body is parsed before the account is looked up
update_account_parse_first(req, st, nid, fb) ==
    LET j == get_json(req.ct, req.body, fb)
    IN  IF j.status # 0 THEN Result(st, nid, abort(j.status, TRUE))
        ELSE update_found(find(st, req.id), req, st, nid, fb)

\* PUT /accounts/{id}
update_account(req, st, nid, fb) ==
    update_found(find(st, req.id), req, st, nid, fb)

\* faulty variant: 204 is answered without account.delete()
delete_found_keep(account, st, nid) ==
    IF account = {} THEN Result(st, nid, not_found)
    ELSE Result(st, nid, Resp(204, [kind |-> "empty"], NoLocation, FALSE))

\* DELETE /accounts/{id}, after Account.find: lines 138-144 on the entity found
delete_found(account, st, nid) ==
    IF account = {} THEN Result(st, nid, not_found)
    ELSE Result(delete(CHOOSE a \in account : TRUE, st), nid,
                Resp(204, [kind |-> "empty"], NoLocation, FALSE))

\* DELETE /accounts/{id}
delete_an_account(req, st, nid) ==
    delete_found(find(st, req.id), st, nid)

(***************************************************************************)
(* Sequential runs: one request at a time, each handled to its response    *)
(***************************************************************************)
NoBody == [kind |-> "none"]
Req(op, id, ct, body) == [op |-> op, id |-> id, ct |-> ct, body |-> body]

\* the worker threads of concurrent runs, and a thread with no request
Threads == {"t1", "t2"}
Idle == [pc |-> "idle", req |-> Req("NONE", 0, NoneVal, NoBody), account |-> {},
         status |-> 0]

Init ==
    /\ store = << >>
    /\ next_id = 1
    /\ request = Req("NONE", 0, NoneVal, NoBody)
    /\ response = Resp(0, [kind |-> "empty"], NoLocation, FALSE)
    /\ created = {}
    /\ deleted = {}
    /\ flask \in FlaskBehaviours
    /\ thr = [t \in Threads |-> Idle]

\* Each action handles one request to its response: the store and the sequence
\* become what the handler left, the histories record a 201 and a 204.
CreateAccounts ==
    \E in \in WriteInputs :
        LET req == Req("POST", 0, in[1], in[2])
            r == create_accounts(req, store, next_id, flask)
        IN  /\ r.next_id <= MaxId + 1
            /\ store' = r.store
            /\ next_id' = r.next_id
            /\ request' = req
            /\ response' = r.resp
            /\ created' = IF r.resp.status = 201
                          THEN created \cup {r.resp.body.account["id"]} ELSE created
            /\ UNCHANGED <<deleted, flask, thr>>

ListAllAccounts ==
    \E rows \in all(store) :
        /\ request' = Req("LIST", 0, NoneVal, NoBody)
        /\ response' = list_all_accounts(rows)
        /\ UNCHANGED <<store, next_id, created, deleted, flask, thr>>

GetAccountById ==
    \E id \in PathIds :
        /\ request' = Req("GET", id, NoneVal, NoBody)
        /\ response' = get_account_by_id(id, store)
        /\ UNCHANGED <<store, next_id, created, deleted, flask, thr>>

UpdateAccount ==
    \E id \in PathIds, in \in WriteInputs :
        LET req == Req("PUT", id, in[1], in[2])
            r == update_account(req, store, next_id, flask)
        IN  /\ store' = r.store
            /\ next_id' = r.next_id
            /\ request' = req
            /\ response' = r.resp
            /\ UNCHANGED <<created, deleted, flask, thr>>

DeleteAnAccount ==
    \E id \in PathIds :
        LET req == Req("DELETE", id, NoneVal, NoBody)
            r == delete_an_account(req, store, next_id)
        IN  /\ store' = r.store
            /\ next_id' = r.next_id
            /\ request' = req
            /\ response' = r.resp
            /\ deleted' = IF r.resp.status = 204 THEN deleted \cup {id} ELSE deleted
            /\ UNCHANGED <<created, flask, thr>>

Next ==
    \/ CreateAccounts
    \/ ListAllAccounts
    \/ GetAccountById
    \/ UpdateAccount
    \/ DeleteAnAccount

Spec == Init /\ [][Next]_vars

(***************************************************************************)
(* Concurrent runs: two worker threads, each handling one request at a     *)
(* time.  A handler takes no lock; each call into the store (find, create, *)
(* update, delete) is one atomic step, and what a handler does between two *)
(* of them touches only its own request and entity.                        *)
(***************************************************************************)
\* the bodies sent in concurrent runs, all under application/json: the two
\* complete accounts and one that lacks email and address
ConcBodies ==
    {[kind |-> "object", obj |-> f] :
        f \in {g \in Objects : DOMAIN g = RequiredKeys \/ (DOMAIN g = {"name"} /\ g["name"] = "y")}}
ConcRequests ==
    {Req("POST", 0, JSON, b) : b \in ConcBodies}
        \cup {Req("PUT", id, JSON, b) : id \in PathIds, b \in ConcBodies}
        \cup {Req("DELETE", id, NoneVal, NoBody) : id \in PathIds}

\* the store, the sequence and the histories after a step of thread t's handler
ConcCommit(t, r) ==
    /\ r.next_id <= MaxId + 1
    /\ store' = r.store
    /\ next_id' = r.next_id
    /\ created' = IF thr[t].req.op = "POST" /\ r.resp.status = 201
                  THEN created \cup {r.resp.body.account.id} ELSE created
    /\ deleted' = IF thr[t].req.op = "DELETE" /\ r.resp.status = 204
                  THEN deleted \cup {thr[t].req.id} ELSE deleted
    /\ thr' = [thr EXCEPT ![t].pc = "done", ![t].status = r.resp.status]
    /\ UNCHANGED <<request, response, flask>>

\* a request arrives at an idle thread
Receive(t) ==
    /\ thr[t].pc = "idle"
    /\ \E req \in ConcRequests :
           thr' = [thr EXCEPT ![t] = [Idle EXCEPT !.pc = "handle", !.req = req]]
    /\ UNCHANGED <<store, next_id, request, response, created, deleted, flask>>

\* POST /accounts: its one call into the store is create()
CreateHandle(t) ==
    /\ thr[t].pc = "handle" /\ thr[t].req.op = "POST"
    /\ ConcCommit(t, create_accounts(thr[t].req, store, next_id, flask))

\* PUT /accounts/{id}, line 112: Account.find
UpdateFind(t) ==
    /\ thr[t].pc = "handle" /\ thr[t].req.op = "PUT"
    /\ thr' = [thr EXCEPT ![t].pc = "found", ![t].account = find(store, thr[t].req.id)]
    /\ UNCHANGED <<store, next_id, request, response, created, deleted, flask>>

\* PUT /accounts/{id}, lines 114-122, on the entity found
UpdateWrite(t) ==
    /\ thr[t].pc = "found" /\ thr[t].req.op = "PUT"
    /\ ConcCommit(t, update_found(thr[t].account, thr[t].req, store, next_id, flask))

\* DELETE /accounts/{id}, line 136: Account.find
DeleteFind(t) ==
    /\ thr[t].pc = "handle" /\ thr[t].req.op = "DELETE"
    /\ thr' = [thr EXCEPT ![t].pc = "found", ![t].account = find(store, thr[t].req.id)]
    /\ UNCHANGED <<store, next_id, request, response, created, deleted, flask>>

\* DELETE /accounts/{id}, lines 138-144, on the entity found
DeleteWrite(t) ==
    /\ thr[t].pc = "found" /\ thr[t].req.op = "DELETE"
    /\ ConcCommit(t, delete_found(thr[t].account, store, next_id))

\* the response is sent and the thread is free again
Respond(t) ==
    /\ thr[t].pc = "done"
    /\ thr' = [thr EXCEPT ![t] = Idle]
    /\ UNCHANGED <<store, next_id, request, response, created, deleted, flask>>

ConcNext ==
    \E t \in Threads :
        \/ Receive(t)
        \/ CreateHandle(t)
        \/ UpdateFind(t)
        \/ UpdateWrite(t)
        \/ DeleteFind(t)
        \/ DeleteWrite(t)
        \/ Respond(t)

ConcSpec == Init /\ [][ConcNext]_vars

(***************************************************************************)
(* Properties                                                              *)
(***************************************************************************)
\* a body that deserializes: a JSON object with name, email and address
ValidBody(body) == body.kind = "object" /\ RequiredKeys \subseteq DOMAIN body.obj
\* a JSON body that does not: not a mapping, or a required key is missing
InvalidBody(body) ==
    \/ body.kind \in {"null", "list"}
    \/ body.kind = "object" /\ ~(RequiredKeys \subseteq DOMAIN body.obj)
\* the serialized account carries the fields of the body it was built from
Carries(account, obj) ==
    /\ \A k \in RequiredKeys : account[k] = obj[k]
    /\ account["phone_number"] =
           IF "phone_number" \in DOMAIN obj THEN obj["phone_number"] ELSE NoneVal
\* the serialized account carries every field the body provides
Overwrites(account, obj) == \A k \in DOMAIN obj \cap StrKeys : account[k] = obj[k]
\* the path of an absolute URL
PathOf(url) == Tail(url)
\* the ids a GET /accounts response lists
Listed(resp) == {resp.body.items[i]["id"] : i \in DOMAIN resp.body.items}

\* C1: a POST /accounts with Content-Type application/json and a body carrying
\* name, email and address answers 201 with the serialized account, whose id the
\* store generated, and a Location whose path is /accounts/{id} for that id (the
\* header is the absolute URL of that path); a GET of that
\* id right after it answers 200 with the fields that were posted.
C1_CreateAnswers201 ==
    (request.op = "POST" /\ request.ct = JSON /\ ValidBody(request.body)) =>
        /\ response.status = 201
        /\ response.body.kind = "account"
        /\ LET id == response.body.account["id"]
               got == get_account_by_id(id, store)
           IN  /\ id \in DOMAIN store /\ id = next_id - 1 /\ id >= 1
               /\ Len(response.location) = 3
               /\ PathOf(response.location) = <<"/accounts/", id>>
               /\ Carries(response.body.account, request.body.obj)
               /\ got.status = 200
               /\ got.body.account["id"] = id
               /\ Carries(got.body.account, request.body.obj)
C1_Witness ==
    /\ request.op = "POST" /\ response.status = 201
    /\ "phone_number" \in DOMAIN request.body.obj
    /\ response.body.account["id"] = 2

\* C2: a POST /accounts whose Content-Type is missing or is not exactly
\* application/json answers 415 whatever the body is, before the body is parsed,
\* and leaves the stored accounts as they were.
C2_WrongTypeIs415 ==
    [][(request'.op = "POST" /\ request'.ct # JSON) =>
          /\ response'.status = 415
          /\ ~response'.parsed
          /\ store' = store /\ next_id' = next_id]_vars
C2_Witness ==
    /\ request.op = "POST" /\ request.ct = "application/json; charset=utf-8"
    /\ ValidBody(request.body)
    /\ response.status = 415
    /\ DOMAIN store # {}

\* C3: a POST /accounts, or a PUT /accounts/{id} on an existing account, whose
\* JSON body fails deserialization answers 400 and commits nothing: no account
\* is created, and the stored account keeps every field value it had.
C3_InvalidBodyIs400 ==
    [][(/\ request'.op \in {"POST", "PUT"}
        /\ request'.op = "PUT" => request'.id \in DOMAIN store
        /\ request'.ct = JSON
        /\ InvalidBody(request'.body)) =>
          /\ response'.status = 400
          /\ store' = store /\ next_id' = next_id]_vars
C3_Witness ==
    /\ request.op = "PUT" /\ request.ct = JSON
    /\ request.body.kind = "object" /\ DOMAIN request.body.obj = {"name", "email"}
    /\ request.body.obj["name"] = "y"
    /\ response.status = 400
    /\ request.id \in DOMAIN store /\ store[request.id].name = "x"

\* C4: a PUT /accounts/{id} on an existing account with a valid body (sent as
\* application/json) answers 200 with the serialized account carrying the
\* overwritten fields; the GETs of that id that follow answer with those values
\* until the next PUT or DELETE of that id, and no other account changes.
C4_UpdateOverwrites ==
    [][/\ (/\ request'.op = "PUT" /\ request'.id \in DOMAIN store
           /\ request'.ct = JSON /\ ValidBody(request'.body)) =>
              /\ response'.status = 200
              /\ response'.body.kind = "account"
              /\ response'.body.account["id"] = request'.id
              /\ Overwrites(response'.body.account, request'.body.obj)
              /\ get_account_by_id(request'.id, store').body = response'.body
              /\ DOMAIN store' = DOMAIN store
              /\ \A i \in DOMAIN store \ {request'.id} : store'[i] = store[i]
       /\ \A i \in DOMAIN store :
              ~(request'.op \in {"PUT", "DELETE"} /\ request'.id = i) =>
                  i \in DOMAIN store' /\ store'[i] = store[i]
       /\ (request'.op = "GET" /\ request'.id \in DOMAIN store') =>
              /\ response'.status = 200
              /\ \A k \in {"id"} \cup StrKeys :
                     response'.body.account[k] = store'[request'.id][k]]_vars
C4_Witness ==
    /\ request.op = "PUT" /\ response.status = 200
    /\ request.body.obj["name"] = "y" /\ "phone_number" \notin DOMAIN request.body.obj
    /\ \E i \in DOMAIN store : i # request.id /\ store[i].name = "x"

\* C5: a PUT /accounts/{id} for an id with no stored account answers 404 with
\* {"error": "Account not found."} for every body and content type, without
\* parsing the body, and creates and modifies nothing.
C5_UpdateMissingIs404 ==
    [][(request'.op = "PUT" /\ request'.id \notin DOMAIN store) =>
          /\ response'.status = 404
          /\ response'.body = [kind |-> "error", key |-> "error",
                               text |-> "Account not found."]
          /\ ~response'.parsed
          /\ store' = store /\ next_id' = next_id]_vars
C5_Witness ==
    /\ request.op = "PUT" /\ response.status = 404
    /\ request.ct = "text/html" /\ request.body.kind = "malformed"
    /\ request.id \in deleted /\ DOMAIN store # {}

\* C6: in a sequential run the DELETE /accounts/{id} of an existing account
\* answers 204 and removes that account alone; from then on GET /accounts/{id}
\* answers 404, GET /accounts does not list it, and a further DELETE of it
\* answers 404 and leaves the store as it is.
C6_DeleteOnce ==
    /\ [](/\ \A i \in deleted :
                i \notin DOMAIN store /\ get_account_by_id(i, store).status = 404
          /\ (request.op = "GET" /\ request.id \in deleted) => response.status = 404
          /\ request.op = "LIST" => Listed(response) \cap deleted = {})
    /\ [][request'.op = "DELETE" =>
             IF request'.id \in DOMAIN store
             THEN /\ response'.status = 204
                  /\ DOMAIN store' = DOMAIN store \ {request'.id}
                  /\ \A i \in DOMAIN store' : store'[i] = store[i]
             ELSE /\ response'.status = 404
                  /\ store' = store]_vars
C6_Witness ==
    /\ request.op = "DELETE" /\ response.status = 404
    /\ request.id \in deleted
    /\ DOMAIN store # {}

\* C7: GET /accounts answers 200 with exactly one entry for every account that a
\* POST created and no DELETE has removed since: the same ids, none twice, none
\* missing, and an empty array for an empty store.
C7_ListIsExact ==
    request.op = "LIST" =>
        /\ response.status = 200
        /\ response.body.kind = "list"
        /\ Listed(response) = created \ deleted
        /\ Len(response.body.items) = Cardinality(created \ deleted)
        /\ \A i \in DOMAIN response.body.items :
               LET item == response.body.items[i]
               IN  \A k \in StrKeys : item[k] = store[item["id"]][k]
C7_Witness ==
    /\ request.op = "LIST"
    /\ Len(response.body.items) = 2
    /\ response.body.items[1]["id"] > response.body.items[2]["id"]

\* C8: an id is assigned by POST alone and is never reused or changed: the id a
\* 201 returns differs from every id returned before, deleted or not, and a PUT
\* leaves the stored account's id equal to the path id, also when the body
\* carries another id.
C8_IdsAreStable ==
    /\ [](\A i \in DOMAIN store : store[i].id = i /\ i \in created \ deleted)
    /\ [][/\ (request'.op = "POST" /\ response'.status = 201) =>
               /\ response'.body.account["id"] \notin created
               /\ created' = created \cup {response'.body.account["id"]}
          /\ (request'.op = "PUT" /\ response'.status = 200) =>
               /\ response'.body.account["id"] = request'.id
               /\ store'[request'.id].id = request'.id
               /\ DOMAIN store' = DOMAIN store
          /\ request'.op # "POST" => created' = created]_vars
C8_Witness ==
    /\ request.op = "PUT" /\ response.status = 200
    /\ "id" \in DOMAIN request.body.obj
    /\ request.body.obj["id"] # request.id
    /\ request.id > 1 /\ 1 \in deleted

\* C9: a PUT /accounts/{id} on an existing account whose Content-Type is
\* missing or is not exactly application/json answers 415 and leaves the stored
\* account as it was.
C9_UpdateWrongTypeIs415 ==
    [][(request'.op = "PUT" /\ request'.id \in DOMAIN store /\ request'.ct # JSON) =>
          /\ response'.status = 415
          /\ store' = store]_vars

====
